---------------------------- MODULE Spec2Model ----------------------------
(***************************************************************************)
(* Model of packages/wasm-occlusion/src/lib.rs: the exported allocator     *)
(* `alloc` and the alpha-only occlusion blend `alpha_composite_inplace`,   *)
(* running over the module's linear memory and driven by a single-threaded *)
(* host.                                                                   *)
(***************************************************************************)
EXTENDS Integers, Sequences, FiniteSets

(***************************************************************************)
(* Bounds of the model.                                                    *)
(***************************************************************************)
\* width of usize / of a pointer, scaled down from the 32 bits of wasm32
USIZE_BITS == 5
\* size in bytes of the largest pixel buffer the host works with
MaxLen == 8
\* number of alloc calls the host makes
MaxAllocs == 3

(***************************************************************************)
(* Program constants.                                                      *)
(***************************************************************************)
\* the null pointer tested by is_null()
NULL == 0
\* as_mut_ptr() of a Vec<u8> that holds no allocation: NonNull::dangling(),
\* the alignment of u8
DANGLING == 1
\* u8::MAX, the literal of the blend formula
U8_MAX == 255
\* number of values of a u8 (`as u8`)
U8_MOD == 256
\* number of values of a u16 (`as u16`)
U16_MOD == 65536
\* first index of the loop: the alpha channel of the first pixel
FIRST_ALPHA == 3
\* the loop's stride: one RGBA8 pixel
PIXEL_STRIDE == 4

RECURSIVE Pow2(_)
Pow2(n) == IF n = 0 THEN 1 ELSE 2 * Pow2(n - 1)

USIZE_MOD == Pow2(USIZE_BITS)
USIZE_MAX == USIZE_MOD - 1
ISIZE_MAX == Pow2(USIZE_BITS - 1) - 1

\* the heap lies above the dangling address and can grow to hold two buffers
HeapBase == DANGLING + 1
MemSize == HeapBase + 2 * MaxLen
Addr == 0..(MemSize - 1)
Byte == 0..U8_MAX

VARIABLES
    mem,                \* linear memory: address -> byte
    live,               \* blocks the global allocator holds as allocated
    handed,             \* regions alloc has returned to the host, in order
    halted,             \* the module has trapped / aborted
    pc,                 \* "host", "loop" (inside the while loop), "returned",
                        \* or what ended the module
    ptr_target_rgba,    \* arguments and local of alpha_composite_inplace
    ptr_occluder_rgba,
    len,
    i,
    pre,                \* memory at entry of the current / last composite call
    reads,              \* addresses read by the current / last composite call
    writes,             \* addresses written by it
    iters,              \* loop iterations it has made
    seq0                \* memory before the first composite call

vars == <<mem, live, handed, halted, pc, ptr_target_rgba, ptr_occluder_rgba,
          len, i, pre, reads, writes, iters, seq0>>

callVars == <<ptr_target_rgba, ptr_occluder_rgba, len, i, pre, reads, writes, iters>>

Range(a, n) == a..(a + n - 1)

Overlap(a1, n1, a2, n2) == Range(a1, n1) \cap Range(a2, n2) # {}


(***************************************************************************)
(* alloc (lib.rs 2-7)                                                      *)
(***************************************************************************)
\* The places where the global allocator can put a fresh block of `size`
\* bytes: inside the heap, clear of every block it still holds.
Fits(size, liveSet) ==
    {b \in HeapBase..(MemSize - size) :
        \A blk \in liveSet : ~Overlap(b, size, blk.base, blk.size)}

\* What Vec::with_capacity(size) followed by as_mut_ptr() can come to.
\*   size = 0          no allocation is made, the pointer is dangling
\*   size > isize::MAX panic "capacity overflow", which aborts at the
\*                     extern "C" boundary
\*   no room           handle_alloc_error, which aborts
\*   otherwise         a block of `size` bytes from the global allocator
AllocNullOnFailure(size, liveSet) ==
    IF size = 0
    THEN {[fatal |-> FALSE, why |-> "ok", addr |-> DANGLING]}
    ELSE IF size > ISIZE_MAX
    THEN {[fatal |-> FALSE, why |-> "ok", addr |-> NULL]}
    ELSE IF Fits(size, liveSet) = {}
    THEN {[fatal |-> FALSE, why |-> "ok", addr |-> NULL]}
    ELSE {[fatal |-> FALSE, why |-> "ok", addr |-> b] : b \in Fits(size, liveSet)}

WithCapacity(size, liveSet) ==
    IF size = 0
    THEN {[fatal |-> FALSE, why |-> "ok", addr |-> DANGLING]}
    ELSE IF size > ISIZE_MAX
    THEN {[fatal |-> TRUE, why |-> "capacity overflow", addr |-> NULL]}
    ELSE IF Fits(size, liveSet) = {}
    THEN {[fatal |-> TRUE, why |-> "alloc error", addr |-> NULL]}
    ELSE {[fatal |-> FALSE, why |-> "ok", addr |-> b] : b \in Fits(size, liveSet)}

\* The allocator's blocks once alloc has returned: buf is dropped at the end
\* of the function, which frees its block ...
DropBuf(liveSet, blk) == liveSet \ {blk}

\* ... unless std::mem::forget(buf) has taken it out of the drop, as it has.
Forget(liveSet, blk) == liveSet

\* the sizes the host asks for: nothing, a pixel and a partial one, a whole
\* buffer, and more than any allocation can hold
AllocSizes == {0, PIXEL_STRIDE + 1, MaxLen, USIZE_MAX}

alloc(size) ==
    /\ pc \in {"host", "returned"}
    /\ ~halted
    /\ Len(handed) < MaxAllocs
    /\ \E r \in WithCapacity(size, live) :
          IF r.fatal
          THEN /\ halted' = TRUE
               /\ pc' = r.why
               /\ UNCHANGED <<live, handed>>
          ELSE LET blk == [base |-> r.addr, size |-> size]
                   held == IF size = 0 THEN live ELSE live \cup {blk}
               IN  /\ live' = Forget(held, blk)
                   /\ handed' = Append(handed, [addr |-> r.addr, size |-> size])
                   /\ halted' = FALSE
                   /\ pc' = "host"
    /\ ptr_target_rgba' = NULL
    /\ ptr_occluder_rgba' = NULL
    /\ len' = 0
    /\ i' = 0
    /\ pre' = mem
    /\ reads' = {}
    /\ writes' = {}
    /\ iters' = 0
    /\ UNCHANGED <<mem, seq0>>

(***************************************************************************)
(* alpha_composite_inplace (lib.rs 10-25)                                  *)
(***************************************************************************)
\* line 11, with && in place of ||
NullGuardBoth(pt, po) == pt = NULL /\ po = NULL

\* line 11
NullGuard(pt, po) == pt = NULL \/ po = NULL

\* line 19, with <= in place of <
LoopCondInclusive(idx, n) == idx <= n

\* line 19
LoopCond(idx, n) == idx < n

\* line 23, stepping one byte
IndexNextByte(idx) == (idx + 1) % USIZE_MOD

\* line 23: i += 4 on a usize
IndexNext(idx) == (idx + PIXEL_STRIDE) % USIZE_MOD

\* line 18, starting one byte early, at the blue channel
LoopStartBlue == FIRST_ALPHA - 1

\* line 18
LoopStart == FIRST_ALPHA

\* line 22 without the widening of line 20-21: the product taken in u8
NewAlphaU8(ta, oa) ==
    (((ta * ((U8_MAX - oa) % U8_MOD)) % U8_MOD) \div U8_MAX) % U8_MOD

\* line 22 dividing by a shift, >> 8
NewAlphaShift(ta, oa) ==
    (((ta * ((U8_MAX - oa) % U16_MOD)) % U16_MOD) \div U8_MOD) % U8_MOD

\* line 22 with 256 - oa
NewAlphaOffByOne(ta, oa) ==
    (((ta * ((U8_MOD - oa) % U16_MOD)) % U16_MOD) \div U8_MAX) % U8_MOD

\* line 22 as the alpha of "occluder over target"
NewAlphaOver(ta, oa) ==
    (oa + (((ta * ((U8_MAX - oa) % U16_MOD)) % U16_MOD) \div U8_MAX)) % U8_MOD

\* lines 20-22: ((ta * (255 - oa)) / 255) as u8, ta and oa being u16
NewAlpha(ta, oa) ==
    (((ta * ((U8_MAX - oa) % U16_MOD)) % U16_MOD) \div U8_MAX) % U8_MOD

\* The safety contract of from_raw_parts(_mut) at lines 15-16, which the
\* host upholds: each pointer is a region it was handed, holding n bytes,
\* and the target slice does not overlap the occluder slice.
ValidBuffers(pt, po, n) ==
    /\ \E k \in DOMAIN handed : handed[k].addr = pt /\ n <= handed[k].size
    /\ \E k \in DOMAIN handed : handed[k].addr = po /\ n <= handed[k].size
    /\ n <= ISIZE_MAX
    /\ ~Overlap(pt, n, po, n)

HandedAddrs == {handed[k].addr : k \in DOMAIN handed}

\* the lengths the host passes
CallLens == 0..MaxLen \cup {USIZE_MAX}

alpha_composite_inplace(pt, po, n) ==
    /\ pc \in {"host", "returned"}
    /\ ~halted
    /\ NULL \in {pt, po} \/ ValidBuffers(pt, po, n)
    /\ ptr_target_rgba' = pt
    /\ ptr_occluder_rgba' = po
    /\ len' = n
    /\ pre' = mem
    /\ reads' = {}
    /\ writes' = {}
    /\ iters' = 0
    /\ i' = LoopStart
    /\ pc' = IF NullGuard(pt, po) THEN "returned" ELSE "loop"
    /\ UNCHANGED <<mem, live, handed, halted, seq0>>

\* one iteration of the while loop; an access outside linear memory traps
LoopStep ==
    /\ pc = "loop"
    /\ LoopCond(i, len)
    /\ LET t == ptr_target_rgba + i
           o == ptr_occluder_rgba + i
       IN  IF t \in Addr /\ o \in Addr
           THEN /\ mem' = [mem EXCEPT ![t] = NewAlpha(mem[t], mem[o])]
                /\ reads' = reads \cup {t, o}
                /\ writes' = writes \cup {t}
                /\ i' = IndexNext(i)
                /\ iters' = iters + 1
                /\ UNCHANGED <<pc, halted>>
           ELSE /\ halted' = TRUE
                /\ pc' = "trapped"
                /\ UNCHANGED <<mem, reads, writes, i, iters>>
    /\ UNCHANGED <<live, handed, seq0, ptr_target_rgba, ptr_occluder_rgba, len, pre>>

\* the loop condition fails and the function returns
LoopExit ==
    /\ pc = "loop"
    /\ ~LoopCond(i, len)
    /\ pc' = "returned"
    /\ UNCHANGED <<mem, live, handed, halted, seq0, callVars>>

(***************************************************************************)
(* Spec: the module from its instantiation, driven by the host.  Linear    *)
(* memory never written by the host holds whatever it held before.         *)
(***************************************************************************)
NoCall ==
    /\ pc = "host"
    /\ ptr_target_rgba = NULL
    /\ ptr_occluder_rgba = NULL
    /\ len = 0
    /\ i = 0
    /\ pre = mem
    /\ reads = {}
    /\ writes = {}
    /\ iters = 0
    /\ seq0 = mem

Init ==
    /\ mem \in {[a \in Addr |-> v] : v \in {0, U8_MAX}}
    /\ live = {}
    /\ handed = <<>>
    /\ halted = FALSE
    /\ NoCall

Next ==
    \/ \E size \in AllocSizes : alloc(size)
    \/ \E pt \in HandedAddrs \cup {NULL}, po \in HandedAddrs \cup {NULL}, n \in AllocSizes :
          alpha_composite_inplace(pt, po, n)
    \/ LoopStep
    \/ LoopExit

Spec == Init /\ [][Next]_vars

(***************************************************************************)
(* SpecComposite: two buffers of MaxLen bytes are resident, as after two   *)
(* alloc(MaxLen) calls and the host's writes; the host makes any sequence  *)
(* of composite calls on them.                                             *)
(***************************************************************************)
TBase == HeapBase
OBase == HeapBase + MaxLen

\* alpha values the host has written
AlphaSamples == {0, 128, U8_MAX}

\* colour bytes the host has written: a pattern that differs from byte to byte
ColourByte(a) == (a * 37 + 11) % U8_MOD

IsAlphaIndex(k) == k % PIXEL_STRIDE = FIRST_ALPHA

ResidentAlphas ==
    {b + k : b \in {TBase, OBase}, k \in {j \in 0..(MaxLen - 1) : IsAlphaIndex(j)}}

InitResident ==
    /\ live = {[base |-> TBase, size |-> MaxLen], [base |-> OBase, size |-> MaxLen]}
    /\ handed = <<[addr |-> TBase, size |-> MaxLen], [addr |-> OBase, size |-> MaxLen]>>
    /\ halted = FALSE
    /\ \E al \in [ResidentAlphas -> AlphaSamples] :
          mem = [a \in Addr |-> IF a \in ResidentAlphas THEN al[a] ELSE ColourByte(a)]
    /\ NoCall

NextComposite ==
    \/ \E pt \in {NULL, TBase}, po \in {NULL, OBase}, n \in CallLens :
          alpha_composite_inplace(pt, po, n)
    \/ LoopStep
    \/ LoopExit

SpecComposite == InitResident /\ [][NextComposite]_vars

\* the call runs to completion: nothing suspends or cancels the loop
SpecCompositeFair == SpecComposite /\ WF_vars(LoopStep) /\ WF_vars(LoopExit)

(***************************************************************************)
(* SpecArith: one pixel of target against one pixel of occluder, over      *)
(* every pair of alpha values.                                             *)
(***************************************************************************)
InitArith ==
    /\ live = {[base |-> TBase, size |-> MaxLen], [base |-> OBase, size |-> MaxLen]}
    /\ handed = <<[addr |-> TBase, size |-> MaxLen], [addr |-> OBase, size |-> MaxLen]>>
    /\ halted = FALSE
    /\ \E ta \in Byte, oa \in Byte :
          mem = [a \in Addr |->
                   IF a = TBase + FIRST_ALPHA THEN ta
                   ELSE IF a = OBase + FIRST_ALPHA THEN oa
                   ELSE ColourByte(a)]
    /\ NoCall

NextArith ==
    \/ /\ pc = "host"
       /\ alpha_composite_inplace(TBase, OBase, PIXEL_STRIDE)
    \/ LoopStep
    \/ LoopExit

SpecArith == InitArith /\ [][NextArith]_vars

(***************************************************************************)
(* Properties.                                                             *)
(***************************************************************************)
\* the last composite call went past the null guard
NonNullCall == ptr_target_rgba # NULL /\ ptr_occluder_rgba # NULL

\* the alpha indices below n: 3, 7, 11, ...
AlphaIdx(n) == {k \in 0..(n - 1) : IsAlphaIndex(k)}

Returned == pc = "returned" /\ NonNullCall

\* C1: for every target alpha ta and occluder alpha oa in 0..255 the alpha
\* byte written is floor(ta * (255 - oa) / 255): the product fits 16 bits
\* and the quotient fits 8 bits, so neither the u16 arithmetic nor the
\* narrowing to u8 changes the value.
C1_ExactFloor ==
    Returned =>
        \A k \in AlphaIdx(len) :
            LET ta == pre[ptr_target_rgba + k]
                oa == pre[ptr_occluder_rgba + k]
            IN  /\ ta * (U8_MAX - oa) \in 0..(U16_MOD - 1)
                /\ (ta * (U8_MAX - oa)) \div U8_MAX \in Byte
                /\ mem[ptr_target_rgba + k] = (ta * (U8_MAX - oa)) \div U8_MAX

C1_Witness ==
    /\ Returned
    /\ len = PIXEL_STRIDE
    /\ pre[ptr_target_rgba + FIRST_ALPHA] = 200
    /\ pre[ptr_occluder_rgba + FIRST_ALPHA] = 128
    /\ mem[ptr_target_rgba + FIRST_ALPHA] = 99

\* C2: a call on valid, non-overlapping buffers changes only target bytes at
\* an index congruent to 3 mod 4: the colour bytes of target, every byte of
\* occluder and all other memory are as they were at entry.
C2_OnlyAlphaModified ==
    pc \in {"loop", "returned"} /\ NonNullCall =>
        /\ \A k \in 0..(len - 1) :
              /\ ~IsAlphaIndex(k) => mem[ptr_target_rgba + k] = pre[ptr_target_rgba + k]
              /\ mem[ptr_occluder_rgba + k] = pre[ptr_occluder_rgba + k]
        /\ \A a \in Addr :
              mem[a] # pre[a] => a \in {ptr_target_rgba + k : k \in AlphaIdx(len)}
        /\ writes \subseteq {ptr_target_rgba + k : k \in AlphaIdx(len)}

C2_Witness ==
    /\ Returned
    /\ len = MaxLen
    /\ \A k \in AlphaIdx(len) : mem[ptr_target_rgba + k] # pre[ptr_target_rgba + k]
    /\ \E k \in 0..(len - 1) : ~IsAlphaIndex(k) /\ mem[ptr_target_rgba + k] # 0

\* C3: a call with a null target or a null occluder returns at once, for
\* every length: nothing is read, nothing is written, memory is as it was
\* and the module has not trapped.
C3_NullIsNoOp ==
    pc # "host" /\ ~NonNullCall =>
        /\ pc = "returned"
        /\ ~halted
        /\ reads = {}
        /\ writes = {}
        /\ iters = 0
        /\ mem = pre

C3_Witness ==
    /\ pc = "returned"
    /\ ptr_target_rgba = NULL
    /\ ptr_occluder_rgba # NULL
    /\ len = USIZE_MAX

\* C4: the region [addr, addr + size) alloc returns overlaps no region an
\* earlier call returned, whatever composite calls came in between.
C4_NoOverlap ==
    \A j \in DOMAIN handed, k \in DOMAIN handed :
        j < k => ~Overlap(handed[j].addr, handed[j].size, handed[k].addr, handed[k].size)

C4_Witness ==
    /\ pc = "host"
    /\ Len(handed) = 3
    /\ handed[1].size = handed[2].size
    /\ \A k \in DOMAIN handed : handed[k].size > 0
    /\ mem # seq0

\* C5: when every occluder alpha below len is 0, the call leaves all of
\* target as it was, alpha bytes included.
C5_TransparentOccluder ==
    (Returned /\ \A k \in AlphaIdx(len) : pre[ptr_occluder_rgba + k] = 0) => mem = pre

C5_Witness ==
    /\ Returned
    /\ len = MaxLen
    /\ iters = Cardinality(AlphaIdx(MaxLen))
    /\ \A k \in AlphaIdx(len) : pre[ptr_occluder_rgba + k] = 0
    /\ \A k \in AlphaIdx(len) : pre[ptr_target_rgba + k] > 0

\* C6: when every occluder alpha below len is 255, every target alpha below
\* len is 0 after the call.
C6_OpaqueOccluder ==
    (Returned /\ \A k \in AlphaIdx(len) : pre[ptr_occluder_rgba + k] = U8_MAX) =>
        \A k \in AlphaIdx(len) : mem[ptr_target_rgba + k] = 0

C6_Witness ==
    /\ Returned
    /\ len = MaxLen
    /\ \A k \in AlphaIdx(len) : pre[ptr_occluder_rgba + k] = U8_MAX
    /\ \A k \in AlphaIdx(len) : pre[ptr_target_rgba + k] = U8_MAX
    /\ \A k \in AlphaIdx(len) : mem[ptr_target_rgba + k] = 0

\* C7: the call reads and writes exactly the indices 3, 7, 11, ... below len
\* and none at or above len; with len <= 3 it makes no iteration and leaves
\* memory as it was, and a trailing partial pixel is left alone.
C7_IndicesBelowLen ==
    /\ pc \in {"loop", "returned"} /\ NonNullCall =>
          /\ reads \subseteq {p + k : p \in {ptr_target_rgba, ptr_occluder_rgba},
                                     k \in AlphaIdx(len)}
          /\ writes \subseteq {ptr_target_rgba + k : k \in AlphaIdx(len)}
          /\ len <= FIRST_ALPHA => iters = 0 /\ mem = pre
    /\ Returned =>
          /\ writes = {ptr_target_rgba + k : k \in AlphaIdx(len)}
          /\ reads = {p + k : p \in {ptr_target_rgba, ptr_occluder_rgba},
                              k \in AlphaIdx(len)}
          /\ \A a \in Addr : a \notin Range(ptr_target_rgba, len) => mem[a] = pre[a]

C7_Witness ==
    /\ Returned
    /\ len = 6
    /\ writes = {ptr_target_rgba + FIRST_ALPHA}
    /\ mem[ptr_target_rgba + FIRST_ALPHA] # pre[ptr_target_rgba + FIRST_ALPHA]
    /\ pre[ptr_occluder_rgba + FIRST_ALPHA + PIXEL_STRIDE] = U8_MAX
    /\ mem[ptr_target_rgba + FIRST_ALPHA + PIXEL_STRIDE] = U8_MAX

\* a region handed to the host: a non-null address and size bytes inside
\* linear memory, held by the allocator
Delivered(r, liveSet) ==
    /\ r.addr # NULL
    /\ r.addr + r.size <= MemSize
    /\ r.size > 0 => [base |-> r.addr, size |-> r.size] \in liveSet

\* C8: alloc either returns a region of the full size (never a null address
\* or a shorter region) or is fatal: a fatal call changes neither the heap
\* nor memory, and nothing runs after it.
C8_FatalOrFullRegion ==
    [][ /\ ~halted
        /\ halted' => live' = live /\ handed' = handed /\ mem' = mem
        /\ Len(handed') > Len(handed) => ~halted'
        /\ \A k \in DOMAIN handed' : Delivered(handed'[k], live')
      ]_vars

C8_Witness ==
    /\ halted
    /\ pc = "alloc error"
    /\ Len(handed) = 2
    /\ \A k \in DOMAIN handed : Delivered(handed[k], live) /\ handed[k].size = MaxLen

\* C9: the loop index starts at 3 and grows by exactly 4 in each iteration
\* (it never wraps), the loop makes at most floor(len / 4) iterations, and
\* every call that enters the loop returns.
C9_Terminates ==
    /\ [](pc \in {"loop", "returned"} /\ iters = 0 => i = FIRST_ALPHA)
    /\ [](iters <= len \div PIXEL_STRIDE)
    /\ [][pc = "loop" /\ pc' = "loop" => i' = i + PIXEL_STRIDE /\ iters' = iters + 1]_vars
    /\ (pc = "loop") ~> (pc = "returned")

C9_Witness ==
    /\ Returned
    /\ len = MaxLen
    /\ iters = MaxLen \div PIXEL_STRIDE
    /\ iters >= 2

\* C10: over any sequence of composite calls no byte of memory, so no
\* target alpha, rises above the value it had before the sequence, no step
\* raises it, and a byte that is 0 stays 0.
C10_OnlyReduces ==
    [][ \A a \in Addr :
          /\ mem'[a] <= seq0'[a]
          /\ mem'[a] <= mem[a]
          /\ mem[a] = 0 => mem'[a] = 0
      ]_vars

C10_Witness ==
    /\ Returned
    /\ 0 < mem[ptr_target_rgba + FIRST_ALPHA]
    /\ mem[ptr_target_rgba + FIRST_ALPHA] < pre[ptr_target_rgba + FIRST_ALPHA]
    /\ pre[ptr_target_rgba + FIRST_ALPHA] < seq0[ptr_target_rgba + FIRST_ALPHA]
    /\ seq0[ptr_target_rgba + FIRST_ALPHA + PIXEL_STRIDE] > 0
    /\ mem[ptr_target_rgba + FIRST_ALPHA + PIXEL_STRIDE] = 0

=============================================================================
